---- MODULE Spec2Model ----
(***************************************************************************)
(* Remote dataset metadata resolution of the LeRobot dataset visualizer:   *)
(* getDatasetInfo (resilient fetch of meta/info.json with a 10 s timeout   *)
(* and one retry), getDatasetVersion (version allowlist) and               *)
(* buildVersionedUrl.                                                      *)
(*                                                                         *)
(* A JavaScript string is a sequence of atoms (short literal chunks; the   *)
(* path separator "/" is always an atom of its own).  An action is one     *)
(* synchronous run of the code between two awaits.  Spec runs one call at  *)
(* a time, SpecUrl adds calls of buildVersionedUrl, SpecPair runs two      *)
(* invocations of getDatasetInfo concurrently, SpecLive runs a call under  *)
(* the fairness of timers and cancellation.  SpecPage is the sub-path page *)
(* with its redirect, SpecViewer the pagination of the episode viewer.     *)
(***************************************************************************)
EXTENDS Integers, Sequences, FiniteSets, TLC

VARIABLE envDatasetUrl   \* process.env.DATASET_URL when the module is loaded

\* Longest sub-path prefix (basePath) tried, in atoms.
MaxPathLen == 2

-----------------------------------------------------------------------------
(* Strings and the URL                                                     *)

PathChars == {"/", "a"}

BasePaths == UNION {[1..n -> PathChars] : n \in 0..MaxPathLen}

RepoIds == {<<"lerobot", "/", "pusht">>, <<"org", "/", "ds">>}

\* sub occurs in s as a contiguous run of atoms (String.prototype.includes)
Contains(s, sub) ==
  \E i \in 0..(Len(s) - Len(sub)) : SubSeq(s, i + 1, i + Len(sub)) = sub

DefaultDatasetUrl == <<"https:", "/", "/", "huggingface.co", "/", "datasets">>

\* an artifact host set in the environment
MirrorDatasetUrl == <<"http:", "/", "/", "mirror.local", "/", "datasets">>

\* unset (or empty), or set to another host
EnvDatasetUrls == {<<>>, MirrorDatasetUrl}

\* process.env.DATASET_URL || "https://huggingface.co/datasets"
DATASET_URL ==
  IF envDatasetUrl # <<>> THEN envDatasetUrl ELSE DefaultDatasetUrl

RECURSIVE StripLeading(_)
StripLeading(s) ==
  IF s # <<>> /\ Head(s) = "/" THEN StripLeading(Tail(s)) ELSE s

RECURSIVE StripTrailing(_)
StripTrailing(s) ==
  IF s # <<>> /\ s[Len(s)] = "/"
    THEN StripTrailing(SubSeq(s, 1, Len(s) - 1))
    ELSE s

\* only the leading separators are removed
StripSlashesLeadingOnly(s) == StripLeading(s)

\* basePath.replace(/^\/+|\/+$/g, "")
StripSlashes(s) == StripTrailing(StripLeading(s))

\* basePath ? `${strip(basePath)}/` : ""   (a non-empty string is truthy)
Prefix(basePath) ==
  IF basePath # <<>> THEN StripSlashes(basePath) \o <<"/">> ELSE <<>>

ResolveMain == <<"/", "resolve", "/", "main", "/">>

InfoPath == <<"meta", "/", "info.json">>

TestUrl(rid, basePath) ==
  DATASET_URL \o <<"/">> \o rid \o ResolveMain \o Prefix(basePath) \o InfoPath

\* the prefix is appended as given, without stripping
BuilderPrefixUnstripped(basePath) ==
  IF basePath # <<>> THEN basePath \o <<"/">> ELSE <<>>

\* buildVersionedUrl: const prefix (the same expression as in getDatasetInfo)
BuilderPrefix(basePath) ==
  IF basePath # <<>> THEN StripSlashes(basePath) \o <<"/">> ELSE <<>>

\* the path is placed before the prefix
buildVersionedUrlPathFirst(rid, version, path, basePath) ==
  DATASET_URL \o <<"/">> \o rid \o ResolveMain \o path \o BuilderPrefix(basePath)

\* the revision segment is taken from the version argument
buildVersionedUrlByVersion(rid, version, path, basePath) ==
  DATASET_URL \o <<"/">> \o rid \o <<"/", "resolve", "/", version, "/">>
    \o BuilderPrefix(basePath) \o path

buildVersionedUrl(rid, version, path, basePath) ==
  DATASET_URL \o <<"/">> \o rid \o ResolveMain \o BuilderPrefix(basePath) \o path

-----------------------------------------------------------------------------
(* JavaScript values                                                       *)

JsVal(t, v) == [t |-> t, v |-> v]
Undefined == JsVal("undefined", "")
Null == JsVal("null", "")
Str(s) == JsVal("string", s)
Num(s) == JsVal("number", s)
Object == JsVal("object", "{}")

\* ToBoolean
Truthy(x) ==
  CASE x.t = "undefined" -> FALSE
    [] x.t = "null" -> FALSE
    [] x.t = "string" -> x.v # ""
    [] x.t = "number" -> x.v # "0"
    [] OTHER -> TRUE

\* thrown values: Error objects and the other values a promise can reject with
Err(name, message) == [type |-> "Error", name |-> name, message |-> message]
NoError == [type |-> "null", name |-> "", message |-> <<>>]
ThrownString == [type |-> "string", name |-> "", message |-> <<"boom">>]
ThrownUndefined == [type |-> "undefined", name |-> "", message |-> <<>>]

\* error instanceof Error
IsError(e) == e.type = "Error"

\* the left operand of `lastError || new Error(...)`
TruthyThrown(e) == e.type \in {"Error", "string"}

AbortErr == Err("AbortError", <<"This operation was aborted">>)
NetFaultA == Err("TypeError", <<"fetch failed">>)
NetFaultB == Err("TypeError", <<"socket hang up">>)

\* what fetch may reject with when the signal has not fired
NetFaults == {NetFaultA, NetFaultB, ThrownString, ThrownUndefined}

-----------------------------------------------------------------------------
(* Failures (each is `new Error(message)`)                                 *)

StatusStr(status) == ToString(status)

AccessDeniedError(status, rid, url) ==
  Err("Error",
      <<"Failed to fetch dataset info: ", StatusStr(status), ". The dataset ">>
      \o rid
      \o <<" may be private or gated. If it's private, set an access token via HF_TOKEN env variable. URL tried: ">>
      \o url)

FetchFailedError(status) ==
  Err("Error", <<"Failed to fetch dataset info: ", StatusStr(status)>>)

UnknownNetworkError ==
  Err("Error", <<"Unknown network error while fetching dataset info">>)

MalformedDescriptorError ==
  Err("Error", <<"Dataset info.json does not have the expected features structure">>)

MissingVersionError ==
  Err("Error", <<"Dataset info.json does not contain codebase_version">>)

\* `${codebaseVersion}` of a truthy value
VersionText(v) == v.v

UnsupportedVersionError(rid, v) ==
  Err("Error",
      <<"Dataset ">> \o rid
      \o <<" has codebase version ", VersionText(v),
           ", which is not supported. This tool only works with dataset versions 3.0, 2.1, or 2.0. Please use a compatible dataset version.">>)

IncompatibleDatasetError(rid) ==
  Err("Error",
      <<"Dataset ">> \o rid
      \o <<" is not compatible with this visualizer. Failed to read dataset information from the main revision.">>)

\* what response.json() rejects with on a body that is not JSON
JsonSyntaxError == Err("SyntaxError", <<"Unexpected token in JSON">>)

\* what `data.features` throws when data is null
NullReadError == Err("TypeError", <<"Cannot read properties of null (reading 'features')">>)

-----------------------------------------------------------------------------
(* Responses                                                               *)

StatusCodes == {200, 401, 403, 404, 500}

\* Response.ok
Ok(status) == status >= 200 /\ status <= 299

FeatureValues == {Undefined, Null, Object}

VersionValues ==
  {Undefined, Null, Str(""), Str("v3.0"), Str("v2.1"), Str("v2.0"),
   Str("v1.0"), Str("v3.1"), Num("2.1")}

Body(kind, features, version) ==
  [kind |-> kind, features |-> features, codebase_version |-> version]

\* a body that is not JSON, the JSON document `null`, and JSON objects with or
\* without the features and codebase_version fields (Undefined = field absent)
NoBody == Body("none", Undefined, Undefined)
TextBody == Body("text", Undefined, Undefined)
NullBody == Body("null", Undefined, Undefined)
ObjectBodies == {Body("object", f, v) : f \in FeatureValues, v \in VersionValues}
Bodies == {TextBody, NullBody} \cup ObjectBodies

NoResponse == [received |-> FALSE, status |-> 0, body |-> NoBody]

-----------------------------------------------------------------------------
(* Results of a call                                                       *)

Pending == [status |-> "pending", desc |-> NoBody, version |-> Undefined, error |-> NoError]
Thrown(e) == [status |-> "thrown", desc |-> NoBody, version |-> Undefined, error |-> e]
ReturnedDesc(d) == [status |-> "returned", desc |-> d, version |-> Undefined, error |-> NoError]
ReturnedVersion(v) == [status |-> "returned", desc |-> NoBody, version |-> v, error |-> NoError]

\* the caught value is rethrown whatever it is
CatchBoundaryRethrow(rid, e) == e

\* catch (error) { if (error instanceof Error) throw error; throw new Error(...) }
CatchBoundary(rid, e) ==
  IF IsError(e) THEN e ELSE IncompatibleDatasetError(rid)

\* a loop bound that allows a second retry
maxAttemptsThree == 2 + 1

maxAttempts == 2
TimeoutMs == 10000

\* a backoff twice as long
BackoffMsDoubled == 300 * 2

BackoffMs == 300

\* the cancellation is not told apart from a network fault
IsAbortErrorNever(e) == FALSE

\* err?.name === "AbortError"
IsAbortError(e) == e.name = "AbortError"

\* only 401 is classified as an access failure
IsAuthStatusOnly401(status) == status = 401

\* response.status === 401 || response.status === 403
IsAuthStatus(status) == status = 401 \/ status = 403

\* throw lastError || new Error("Unknown network error ...")
NoResponseFailure(le) ==
  Thrown(IF TruthyThrown(le) THEN le ELSE UnknownNetworkError)

\* the `if (!response.ok)` block
StatusFailure(status, rid, url) ==
  IF IsAuthStatus(status)
    THEN Thrown(AccessDeniedError(status, rid, url))
    ELSE Thrown(FetchFailedError(status))

\* the features check is left out
HasFeaturesUnchecked(data) == TRUE

\* !data.features is false
HasFeatures(data) == Truthy(data.features)

\* const data = await response.json(); the features check; return data
ParseDescriptor(body) ==
  CASE body.kind = "text" -> Thrown(JsonSyntaxError)
    [] body.kind = "null" -> Thrown(NullReadError)
    [] OTHER -> IF ~HasFeatures(body)
                  THEN Thrown(MalformedDescriptorError)
                  ELSE ReturnedDesc(body)

\* the allowlist without its last entry
supportedVersionsShort == {"v3.0", "v2.1"}

supportedVersions == {"v3.0", "v2.1", "v2.0"}

\* any string passes for a supported version
IsSupportedAnyString(v) == v.t = "string"

\* supportedVersions.includes(codebaseVersion): strict equality with a string
IsSupported(v) == v.t = "string" /\ v.v \in supportedVersions

\* only an absent field counts as missing (=== undefined)
VersionMissingOnlyAbsent(v) == v.t = "undefined"

\* !codebaseVersion
VersionMissing(v) == ~Truthy(v)

\* the try block of getDatasetVersion once getDatasetInfo has settled as `info`
ValidateVersion(rid, info) ==
  IF info.status = "thrown" THEN info
  ELSE LET codebaseVersion == info.desc.codebase_version IN
       IF VersionMissing(codebaseVersion) THEN Thrown(MissingVersionError)
       ELSE IF ~IsSupported(codebaseVersion)
         THEN Thrown(UnsupportedVersionError(rid, codebaseVersion))
         ELSE ReturnedVersion(codebaseVersion)

\* a try block's outcome after its catch clause
AfterCatch(rid, raw) ==
  IF raw.status = "thrown" THEN Thrown(CatchBoundary(rid, raw.error)) ELSE raw

\* how getDatasetInfo settles when its try block ends as `raw`
InfoResult(rid, raw) == AfterCatch(rid, raw)

\* how getDatasetVersion settles when getDatasetInfo has settled as `info`
VersionResult(rid, info) == AfterCatch(rid, ValidateVersion(rid, info))

-----------------------------------------------------------------------------
(* One call of getDatasetInfo or getDatasetVersion                         *)

VARIABLES
  pc,         \* "idle", "fetching" (await fetch), "backoff" (await the 300 ms
              \* timer), "parsing" (await response.json()), "done"
  entry,      \* the entry point called: "info" or "version"
  repoId,     \* argument repoId
  basePath,   \* argument basePath
  attempt,    \* let attempt
  lastError,  \* let lastError
  response,   \* let response
  timer,      \* the 10 s timer: "none", "armed", "fired", "cleared"
  aborted,    \* controller.signal.aborted
  trace,      \* history of the call: what happened, in order
  raised,     \* history: the value first thrown inside a try block
  outcome,    \* how the call settled
  testUrl,    \* const testUrl
  rejections, \* history: the values the fetches of the call rejected with
  built,      \* a call of buildVersionedUrl: its arguments and its result
  rebuilt,    \* a later call with the same repoId, path and basePath
  calls,      \* two invocations of getDatasetInfo running concurrently
  envEpisodes,    \* process.env.EPISODES: unset, or a string
  reqRest,        \* params.rest of the request the sub-path page handles
  pagePc,         \* "idle", "handling", "redirected", "rendered"
  location,       \* the path the page gave to redirect()
  redirects,      \* history: the redirects answered since the first request
  episodesLength, \* episodes.length in the episode viewer
  episodeIndex,   \* episodes.indexOf(episodeId), -1 when absent
  currentPage,    \* the state currentPage, as the last render saw it
  pending,        \* the updates setCurrentPage has queued since that render
  effectDue       \* the effect on [episodes, episodeId, ...] has yet to run

vars ==
  <<pc, entry, repoId, basePath, attempt, lastError, response, timer, aborted,
    trace, raised, outcome, testUrl, rejections, built, rebuilt, calls,
    envDatasetUrl, envEpisodes, reqRest, pagePc, location, redirects,
    episodesLength, episodeIndex, currentPage, pending, effectDue>>

\* the state of the sub-path page
pageVars == <<envEpisodes, reqRest, pagePc, location, redirects>>

\* the state of the episode viewer's pagination
viewerVars == <<episodesLength, episodeIndex, currentPage, pending, effectDue>>

\* the state of a call of getDatasetInfo or getDatasetVersion
fetchVars ==
  <<pc, entry, repoId, basePath, attempt, lastError, response, timer, aborted,
    trace, raised, outcome, testUrl, rejections>>

\* what a call of getDatasetInfo or getDatasetVersion does not touch
nonFetchVars == <<built, rebuilt, calls, envDatasetUrl, pageVars, viewerVars>>

Entries == {"info", "version"}

Event(e, n) == [e |-> e, n |-> n]

\* fetch(testUrl, {signal, ...}) is invoked; n = 1 when the signal has already fired
FetchEvent(isAborted) == Event("fetch", IF isAborted THEN 1 ELSE 0)

\* await fetch rejects: with the AbortError when the signal has fired, with a
\* network fault otherwise
RejectEvent(err) == Event(IF err = AbortErr THEN "abort" ELSE "fault", 0)

\* the timer is never cleared
ClearTimeoutForgotten(t) == t

\* clearTimeout(timeoutId)
ClearTimeout(t) == IF t = "armed" THEN "cleared" ELSE t

\* The call settles: getDatasetInfo's try block ends as `raw`; for the entry
\* point getDatasetVersion the validation follows in the same turn.
Settle(raw) ==
  LET info == InfoResult(repoId, raw)
      vraw == ValidateVersion(repoId, info)
  IN /\ pc' = "done"
     /\ outcome' = IF entry = "version" THEN VersionResult(repoId, info) ELSE info
     /\ raised' = IF raw.status = "thrown" THEN raw.error
                  ELSE IF entry = "version" /\ vraw.status = "thrown" THEN vraw.error
                  ELSE NoError

\* both attempts are started at once instead of one after the other
CallBothAttempts(e, rid, bp) ==
  /\ pc \in {"idle", "done"}
  /\ pc' = "fetching"
  /\ entry' = e
  /\ repoId' = rid
  /\ basePath' = bp
  /\ attempt' = 0
  /\ lastError' = NoError
  /\ response' = NoResponse
  /\ timer' = "armed"
  /\ aborted' = FALSE
  /\ trace' = <<FetchEvent(FALSE), FetchEvent(FALSE)>>
  /\ raised' = NoError
  /\ outcome' = Pending
  /\ testUrl' = TestUrl(rid, bp)
  /\ rejections' = <<>>
  /\ UNCHANGED nonFetchVars

\* getDatasetInfo(repoId, basePath) or getDatasetVersion(repoId, basePath) is
\* called: lines 31-49 up to the first await (the first fetch is in flight).
Call(e, rid, bp) ==
  /\ pc \in {"idle", "done"}
  /\ pc' = "fetching"
  /\ entry' = e
  /\ repoId' = rid
  /\ basePath' = bp
  /\ attempt' = 0
  /\ lastError' = NoError
  /\ response' = NoResponse
  /\ timer' = "armed"
  /\ aborted' = FALSE
  /\ trace' = <<FetchEvent(FALSE)>>
  /\ raised' = NoError
  /\ outcome' = Pending
  /\ testUrl' = TestUrl(rid, bp)
  /\ rejections' = <<>>
  /\ UNCHANGED nonFetchVars

\* the 10 s timer fires, but its callback leaves the controller alone
TimerFiresNoAbort ==
  /\ timer = "armed"
  /\ timer' = "fired"
  /\ trace' = Append(trace, Event("expire", TimeoutMs))
  /\ UNCHANGED <<pc, entry, repoId, basePath, attempt, lastError, response,
                 aborted, raised, outcome, testUrl, rejections, nonFetchVars>>

\* setTimeout(() => controller.abort(), 10000) fires
TimerFires ==
  /\ timer = "armed"
  /\ timer' = "fired"
  /\ aborted' = TRUE
  /\ trace' = Append(trace, Event("expire", TimeoutMs))
  /\ UNCHANGED <<pc, entry, repoId, basePath, attempt, lastError, response,
                 raised, outcome, testUrl, rejections, nonFetchVars>>

\* a response with a server-error status is retried like a network fault
FetchRespondsRetry5xx(status, body) ==
  /\ pc = "fetching"
  /\ ~aborted
  /\ response' = [received |-> TRUE, status |-> status, body |-> body]
  /\ IF status >= 500 /\ attempt + 1 < maxAttempts
       THEN /\ pc' = "fetching"
            /\ attempt' = attempt + 1
            /\ trace' = trace \o <<Event("response", status), FetchEvent(aborted)>>
            /\ UNCHANGED <<timer, raised, outcome>>
       ELSE /\ attempt' = attempt
            /\ trace' = Append(trace, Event("response", status))
            /\ timer' = ClearTimeout(timer)
            /\ IF Ok(status)
                 THEN /\ pc' = "parsing"
                      /\ UNCHANGED <<raised, outcome>>
                 ELSE Settle(StatusFailure(status, repoId, testUrl))
  /\ UNCHANGED <<entry, repoId, basePath, lastError, aborted, testUrl,
                 rejections, nonFetchVars>>

\* await fetch resolves with a response: break, clearTimeout, the status check,
\* and for a success status the call of response.json()
FetchResponds(status, body) ==
  /\ pc = "fetching"
  /\ ~aborted
  /\ response' = [received |-> TRUE, status |-> status, body |-> body]
  /\ trace' = Append(trace, Event("response", status))
  /\ timer' = ClearTimeout(timer)
  /\ IF Ok(status)
       THEN /\ pc' = "parsing"
            /\ UNCHANGED <<raised, outcome>>
       ELSE Settle(StatusFailure(status, repoId, testUrl))
  /\ UNCHANGED <<entry, repoId, basePath, attempt, lastError, aborted, testUrl,
                 rejections, nonFetchVars>>

\* the first error is kept instead of the last
CaughtErrorKeepFirst(prev, err) == IF prev = NoError THEN err ELSE prev

\* lastError = err
CaughtError(prev, err) == err

\* await fetch rejects with err: the catch block of the loop, then either the
\* backoff wait, or the end of the loop with clearTimeout and the throw
FetchRejects(err) ==
  /\ pc = "fetching"
  /\ err \in (IF aborted THEN {AbortErr} ELSE NetFaults)
  /\ lastError' = CaughtError(lastError, err)
  /\ rejections' = Append(rejections, err)
  /\ IF IsAbortError(err)
       THEN /\ attempt' = attempt
            /\ trace' = Append(trace, RejectEvent(err))
            /\ timer' = ClearTimeout(timer)
            /\ Settle(NoResponseFailure(CaughtError(lastError, err)))
       ELSE /\ attempt' = attempt + 1
            /\ IF attempt + 1 < maxAttempts
                 THEN /\ pc' = "backoff"
                      /\ trace' = trace \o <<RejectEvent(err),
                                             Event("wait", BackoffMs * (attempt + 1))>>
                      /\ UNCHANGED <<timer, raised, outcome>>
                 ELSE /\ trace' = Append(trace, RejectEvent(err))
                      /\ timer' = ClearTimeout(timer)
                      /\ Settle(NoResponseFailure(CaughtError(lastError, err)))
  /\ UNCHANGED <<entry, repoId, basePath, response, aborted, testUrl,
                 nonFetchVars>>

\* the backoff timer fires: continue, the loop condition, the next fetch
BackoffElapses ==
  /\ pc = "backoff"
  /\ IF attempt < maxAttempts
       THEN /\ pc' = "fetching"
            /\ trace' = Append(trace, FetchEvent(aborted))
            /\ UNCHANGED <<timer, raised, outcome>>
       ELSE /\ trace' = trace
            /\ timer' = ClearTimeout(timer)
            /\ Settle(NoResponseFailure(lastError))
  /\ UNCHANGED <<entry, repoId, basePath, attempt, lastError, response, aborted,
                 testUrl, rejections, nonFetchVars>>

\* await response.json() settles: the features check and the return
JsonSettles ==
  /\ pc = "parsing"
  /\ trace' = Append(trace, Event("parsed", 0))
  /\ Settle(ParseDescriptor(response.body))
  /\ UNCHANGED <<entry, repoId, basePath, attempt, lastError, response, timer,
                 aborted, testUrl, rejections, nonFetchVars>>

-----------------------------------------------------------------------------
(* Calls of buildVersionedUrl                                              *)

NoBuild ==
  [rid |-> <<>>, version |-> "", path |-> <<>>, basePath |-> <<>>,
   prefix |-> <<>>, url |-> <<>>]

NoRebuild == [version |-> "", url |-> <<>>]

UrlVersions == {"v2.1", "v3.0"}

ChunkPath == <<"data", "/", "chunk-000", "/", "file-000.parquet">>

UrlPaths == {InfoPath, ChunkPath}

\* the prefixes "/a/b/", "a/b/" and "a/b"
ExamplePaths ==
  {<<"/", "a", "/", "b", "/">>, <<"a", "/", "b", "/">>, <<"a", "/", "b">>}

UrlBasePaths == BasePaths \cup ExamplePaths

\* buildVersionedUrl(rid, version, path, bp) is called
BuildUrl(rid, version, path, bp) ==
  /\ built = NoBuild
  /\ built' = [rid |-> rid, version |-> version, path |-> path, basePath |-> bp,
               prefix |-> BuilderPrefix(bp),
               url |-> buildVersionedUrl(rid, version, path, bp)]
  /\ UNCHANGED <<fetchVars, rebuilt, calls, envDatasetUrl, pageVars, viewerVars>>

\* buildVersionedUrl is called once more with the same repoId, path and
\* basePath, and any version
BuildAgain(version) ==
  /\ built # NoBuild
  /\ rebuilt' = [version |-> version,
                 url |-> buildVersionedUrl(built.rid, version, built.path,
                                           built.basePath)]
  /\ UNCHANGED <<fetchVars, built, calls, envDatasetUrl, pageVars, viewerVars>>

-----------------------------------------------------------------------------
(* Two concurrent invocations of getDatasetInfo                            *)

\* Each invocation has its own locals (lines 31-46): the record calls[i].

CallIds == {1, 2}

IdleCall ==
  [pc |-> "idle", rid |-> <<>>, attempt |-> 0, lastError |-> NoError,
   response |-> NoResponse, timer |-> "none", aborted |-> FALSE,
   trace |-> <<>>, outcome |-> Pending]

\* lines 31-49 of an invocation, up to its first await
StartedCall(rid) ==
  [pc |-> "fetching", rid |-> rid, attempt |-> 0, lastError |-> NoError,
   response |-> NoResponse, timer |-> "armed", aborted |-> FALSE,
   trace |-> <<FetchEvent(FALSE)>>, outcome |-> Pending]

\* the invocation c settles with its try block ending as `raw`
SettledCall(c, raw) ==
  [c EXCEPT !.pc = "done", !.outcome = InfoResult(c.rid, raw)]

\* lines 70-88 for the invocation c, after the loop has ended
AfterLoop(c) ==
  LET d == [c EXCEPT !.timer = ClearTimeout(c.timer)] IN
  IF ~d.response.received THEN SettledCall(d, NoResponseFailure(d.lastError))
  ELSE IF ~Ok(d.response.status)
    THEN SettledCall(d, StatusFailure(d.response.status, d.rid, TestUrl(d.rid, <<>>)))
    ELSE [d EXCEPT !.pc = "parsing"]

\* the catch block of the loop for the invocation c
AfterReject(c, err) ==
  LET d == [c EXCEPT !.lastError = CaughtError(c.lastError, err),
                     !.trace = Append(c.trace, RejectEvent(err))] IN
  IF IsAbortError(err) THEN AfterLoop(d)
  ELSE IF d.attempt + 1 < maxAttempts
    THEN [d EXCEPT !.attempt = d.attempt + 1,
                   !.pc = "backoff",
                   !.trace = Append(d.trace, Event("wait", BackoffMs * (d.attempt + 1)))]
    ELSE AfterLoop([d EXCEPT !.attempt = d.attempt + 1])

PairUnchanged ==
  UNCHANGED <<fetchVars, built, rebuilt, envDatasetUrl, pageVars, viewerVars>>

\* invocation i of getDatasetInfo(rid) starts
PCall(i, rid) ==
  /\ calls[i].pc \in {"idle", "done"}
  /\ calls' = [calls EXCEPT ![i] = StartedCall(rid)]
  /\ PairUnchanged

\* one controller shared by all invocations: the expiry aborts every signal
PTimerFiresShared(i) ==
  /\ calls[i].timer = "armed"
  /\ calls' = [j \in CallIds |->
                IF j = i
                  THEN [calls[j] EXCEPT !.timer = "fired", !.aborted = TRUE,
                          !.trace = Append(calls[j].trace, Event("expire", TimeoutMs))]
                  ELSE [calls[j] EXCEPT !.aborted = TRUE]]
  /\ PairUnchanged

\* the 10 s timer of invocation i fires: its own controller aborts
PTimerFires(i) ==
  /\ calls[i].timer = "armed"
  /\ calls' = [calls EXCEPT ![i] =
                [@ EXCEPT !.timer = "fired", !.aborted = TRUE,
                          !.trace = Append(@, Event("expire", TimeoutMs))]]
  /\ PairUnchanged

\* the fetch of invocation i resolves with a response
PFetchResponds(i, status, body) ==
  /\ calls[i].pc = "fetching"
  /\ ~calls[i].aborted
  /\ calls' = [calls EXCEPT ![i] =
                AfterLoop([@ EXCEPT
                  !.response = [received |-> TRUE, status |-> status, body |-> body],
                  !.trace = Append(@, Event("response", status))])]
  /\ PairUnchanged

\* the fetch of invocation i rejects with err
PFetchRejects(i, err) ==
  /\ calls[i].pc = "fetching"
  /\ err \in (IF calls[i].aborted THEN {AbortErr} ELSE NetFaults)
  /\ calls' = [calls EXCEPT ![i] = AfterReject(@, err)]
  /\ PairUnchanged

\* the backoff timer of invocation i fires: the next fetch
PBackoffElapses(i) ==
  /\ calls[i].pc = "backoff"
  /\ calls' = [calls EXCEPT ![i] =
                IF @.attempt < maxAttempts
                  THEN [@ EXCEPT !.pc = "fetching",
                                 !.trace = Append(@, FetchEvent(calls[i].aborted))]
                  ELSE AfterLoop(@)]
  /\ PairUnchanged

\* response.json() of invocation i settles
PJsonSettles(i) ==
  /\ calls[i].pc = "parsing"
  /\ calls' = [calls EXCEPT ![i] =
                SettledCall([@ EXCEPT !.trace = Append(@, Event("parsed", 0))],
                            ParseDescriptor(@.response.body))]
  /\ PairUnchanged

-----------------------------------------------------------------------------
(* The sub-path page /[org]/[dataset]/[...rest]                            *)
(* Here a string is a sequence of characters; "episode_" is one atom.      *)

\* Longest value of EPISODES tried, in characters.
MaxEnvLen == 3

\* Most segments of params.rest in a first request.
MaxRestLen == 2

\* Redirects followed before the client gives up.
MaxRedirects == 3

DigitChars == <<"0", "1", "2", "3", "4", "5", "6", "7", "8", "9">>

\* \d
IsDigit(c) == \E d \in DOMAIN DigitChars : DigitChars[d] = c

DigitVal(c) == (CHOOSE d \in DOMAIN DigitChars : DigitChars[d] = c) - 1

\* \s
IsSpace(c) == c = " "

EnvChars == {" ", "-", "0", "7", "x"}

NoEnv == [set |-> FALSE, s |-> <<>>]

EnvStr(s) == [set |-> TRUE, s |-> s]

EnvEpisodes ==
  {NoEnv} \cup {EnvStr(s) : s \in UNION {[1..n -> EnvChars] : n \in 0..MaxEnvLen}}

NaN == [nan |-> TRUE, n |-> 0]

NumberOf(n) == [nan |-> FALSE, n |-> n]

\* s.split(/\s+/): the pieces between the maximal runs of whitespace; a
\* string that starts or ends with whitespace gives an empty first or last
\* piece, and the empty string gives one empty piece
RECURSIVE SplitSpaces(_)
SplitSpaces(s) ==
  LET spaces == {i \in 1..Len(s) : IsSpace(s[i])}
  IN IF spaces = {}
       THEN <<s>>
       ELSE LET i == CHOOSE x \in spaces : \A y \in spaces : x <= y
                after == {x \in i..Len(s) : ~IsSpace(s[x])}
                j == IF after = {}
                       THEN Len(s) + 1
                       ELSE CHOOSE x \in after : \A y \in after : x <= y
            IN <<SubSeq(s, 1, i - 1)>> \o SplitSpaces(SubSeq(s, j, Len(s)))

\* the longest prefix of s made of digits
RECURSIVE DigitsPrefix(_)
DigitsPrefix(s) ==
  IF s # <<>> /\ IsDigit(s[1])
    THEN <<s[1]>> \o DigitsPrefix(Tail(s))
    ELSE <<>>

RECURSIVE DecimalValue(_)
DecimalValue(digits) ==
  IF digits = <<>>
    THEN 0
    ELSE 10 * DecimalValue(SubSeq(digits, 1, Len(digits) - 1))
           + DigitVal(digits[Len(digits)])

\* parseInt(x.trim(), 10): an optional sign, then the digits up to the first
\* character that is not one; NaN when there is no digit
ParseInt(x) ==
  LET signed == x # <<>> /\ x[1] \in {"-", "+"}
      digits == DigitsPrefix(IF signed THEN Tail(x) ELSE x)
      value == DecimalValue(digits)
  IN IF digits = <<>>
       THEN NaN
       ELSE NumberOf(IF x[1] = "-" THEN 0 - value ELSE value)

\* process.env.EPISODES?.split(/\s+/).map(parseInt).filter(!isNaN)[0] ?? 0
EpisodeN(env) ==
  IF ~env.set
    THEN 0
    ELSE LET pieces == SplitSpaces(env.s)
             parsed == [k \in DOMAIN pieces |-> ParseInt(pieces[k])]
             numbers == SelectSeq(parsed, LAMBDA v : ~v.nan)
         IN IF numbers = <<>> THEN 0 ELSE numbers[1].n

\* the decimal digits of a natural number
RECURSIVE Decimal(_)
Decimal(n) ==
  IF n < 10
    THEN <<DigitChars[n + 1]>>
    ELSE Decimal(n \div 10) \o <<DigitChars[(n % 10) + 1]>>

\* `${n}` for an integer n
NumberToString(n) ==
  IF n < 0 THEN <<"-">> \o Decimal(0 - n) ELSE Decimal(n)

\* /^episode_\d+$/.test(segment)
IsEpisodeSegment(segment) ==
  /\ Len(segment) >= 2
  /\ segment[1] = "episode_"
  /\ \A i \in 2..Len(segment) : IsDigit(segment[i])

\* rest?.[rest.length - 1] || ""
LastSegment(rest) == IF rest = <<>> THEN <<>> ELSE rest[Len(rest)]

\* rest.join("/")
RECURSIVE JoinSlash(_)
JoinSlash(rest) ==
  IF rest = <<>>
    THEN <<>>
    ELSE IF Len(rest) = 1
      THEN rest[1]
      ELSE rest[1] \o <<"/">> \o JoinSlash(Tail(rest))

\* `/${org}/${dataset}/${base}episode_${episodeN}`
RedirectTarget(org, dataset, rest, env) ==
  LET base == IF Len(rest) # 0 THEN JoinSlash(rest) \o <<"/">> ELSE <<>>
  IN <<"/", org, "/", dataset, "/">> \o base
       \o <<"episode_">> \o NumberToString(EpisodeN(env))

\* the segments of a path, which are what the router puts in params
RECURSIVE PathSegments(_)
PathSegments(path) ==
  LET slashes == {i \in 1..Len(path) : path[i] = "/"}
  IN IF slashes = {}
       THEN <<path>>
       ELSE LET i == CHOOSE x \in slashes : \A y \in slashes : x <= y
            IN <<SubSeq(path, 1, i - 1)>>
                 \o PathSegments(SubSeq(path, i + 1, Len(path)))

\* params.rest for a path /org/dataset/...
RestOf(path) ==
  LET segments == PathSegments(Tail(path))
  IN SubSeq(segments, 3, Len(segments))

Org == "lerobot"

Dataset == "pusht"

Segments ==
  {<<"a">>, <<"episode_", "7">>, <<"episode_", "x">>, <<"episode_">>}

Rests == UNION {[1..n -> Segments] : n \in 1..MaxRestLen}

\* a request for /lerobot/pusht/<rest> arrives
Request(rest) ==
  /\ pagePc = "idle"
  /\ pagePc' = "handling"
  /\ reqRest' = rest
  /\ redirects' = 0
  /\ UNCHANGED <<envEpisodes, location, fetchVars, built, rebuilt, calls,
                 envDatasetUrl, viewerVars>>

\* DatasetSubpathPage: redirect when the last segment is not an episode
\* segment, render the episode otherwise
DatasetSubpathPage ==
  /\ pagePc = "handling"
  /\ IF ~IsEpisodeSegment(LastSegment(reqRest))
       THEN /\ redirects < MaxRedirects
            /\ location' = RedirectTarget(Org, Dataset, reqRest, envEpisodes)
            /\ redirects' = redirects + 1
            /\ pagePc' = "redirected"
       ELSE /\ pagePc' = "rendered"
            /\ UNCHANGED <<location, redirects>>
  /\ UNCHANGED <<envEpisodes, reqRest, fetchVars, built, rebuilt, calls,
                 envDatasetUrl, viewerVars>>

\* the client follows the redirect: the router matches the target and the
\* page handles it
FollowRedirect ==
  /\ pagePc = "redirected"
  /\ pagePc' = "handling"
  /\ reqRest' = RestOf(location)
  /\ UNCHANGED <<envEpisodes, location, redirects, fetchVars, built, rebuilt,
                 calls, envDatasetUrl, viewerVars>>

-----------------------------------------------------------------------------
(* The episode viewer's pagination (EpisodeViewerInner)                    *)
(* currentPage is the value the handlers of the last render closed over;   *)
(* setCurrentPage queues an update, and the next render applies the queue. *)

\* Most updates queued between two renders.
MaxPending == 2

pageSize == 100

EpisodeCounts == {0, 1, 100, 101, 250}

EpisodeIndexes(n) == {0 - 1} \cup {i \in {0, 99, 100, 249} : i < n}

\* Math.ceil(episodes.length / pageSize)
totalPages == (episodesLength + pageSize - 1) \div pageSize

\* setCurrentPage((prev) => prev + d)
Updater(d) == [op |-> "update", n |-> d]

\* setCurrentPage(value)
SetTo(value) == [op |-> "set", n |-> value]

ApplyUpdate(page, u) == IF u.op = "set" THEN u.n ELSE page + u.n

\* the state after the queued updates, applied in order
RECURSIVE ApplyAll(_, _)
ApplyAll(page, queue) ==
  IF queue = <<>>
    THEN page
    ELSE ApplyAll(ApplyUpdate(page, queue[1]), Tail(queue))

ViewerUnchanged ==
  UNCHANGED <<fetchVars, built, rebuilt, calls, envDatasetUrl, pageVars>>

\* const nextPage: the guard reads the currentPage of the last render
nextPage ==
  /\ Len(pending) < MaxPending
  /\ pending' = IF currentPage < totalPages
                  THEN Append(pending, Updater(1))
                  ELSE pending
  /\ UNCHANGED <<episodesLength, episodeIndex, currentPage, effectDue>>
  /\ ViewerUnchanged

\* const prevPage
prevPage ==
  /\ Len(pending) < MaxPending
  /\ pending' = IF currentPage > 1
                  THEN Append(pending, Updater(0 - 1))
                  ELSE pending
  /\ UNCHANGED <<episodesLength, episodeIndex, currentPage, effectDue>>
  /\ ViewerUnchanged

\* the effect on [episodes, episodeId, pageSize, searchParams]
PageEffect ==
  /\ effectDue
  /\ Len(pending) < MaxPending
  /\ effectDue' = FALSE
  /\ pending' = IF episodeIndex # 0 - 1
                  THEN Append(pending, SetTo((episodeIndex \div pageSize) + 1))
                  ELSE pending
  /\ UNCHANGED <<episodesLength, episodeIndex, currentPage>>
  /\ ViewerUnchanged

\* the component renders again because its state was updated
Render ==
  /\ pending # <<>>
  /\ currentPage' = ApplyAll(currentPage, pending)
  /\ pending' = <<>>
  /\ UNCHANGED <<episodesLength, episodeIndex, effectDue>>
  /\ ViewerUnchanged

\* the component renders again because episodeId or searchParams changed:
\* the effect is due again
DepsChange(index) ==
  /\ ~effectDue
  /\ episodeIndex' = index
  /\ currentPage' = ApplyAll(currentPage, pending)
  /\ pending' = <<>>
  /\ effectDue' = TRUE
  /\ UNCHANGED episodesLength
  /\ ViewerUnchanged

-----------------------------------------------------------------------------
(* Specifications                                                          *)

\* the sub-path page has no request, EPISODES is not set
PageIdle ==
  /\ reqRest = <<>>
  /\ pagePc = "idle"
  /\ location = <<>>
  /\ redirects = 0

\* the viewer is not mounted
ViewerIdle ==
  /\ episodesLength = 0
  /\ episodeIndex = 0 - 1
  /\ currentPage = 1
  /\ pending = <<>>
  /\ effectDue = FALSE

InitCore ==
  /\ pc = "idle"
  /\ entry = "info"
  /\ repoId = <<"lerobot", "/", "pusht">>
  /\ basePath = <<>>
  /\ attempt = 0
  /\ lastError = NoError
  /\ response = NoResponse
  /\ timer = "none"
  /\ aborted = FALSE
  /\ trace = <<>>
  /\ raised = NoError
  /\ outcome = Pending
  /\ testUrl = <<>>
  /\ rejections = <<>>
  /\ built = NoBuild
  /\ rebuilt = NoRebuild
  /\ calls = [i \in CallIds |-> IdleCall]
  /\ envDatasetUrl \in EnvDatasetUrls

Init ==
  /\ InitCore
  /\ envEpisodes = NoEnv
  /\ PageIdle
  /\ ViewerIdle

Next ==
  \/ \E e \in Entries, rid \in RepoIds, bp \in BasePaths : Call(e, rid, bp)
  \/ TimerFires
  \/ \E status \in StatusCodes, body \in Bodies : FetchResponds(status, body)
  \/ \E err \in NetFaults \cup {AbortErr} : FetchRejects(err)
  \/ BackoffElapses
  \/ JsonSettles

Spec == Init /\ [][Next]_vars

GoodBody == Body("object", Object, Str("v2.1"))

\* calls of buildVersionedUrl, with calls of getDatasetInfo before and
\* between them
NextUrl ==
  \/ \E rid \in RepoIds, version \in UrlVersions, path \in UrlPaths,
        bp \in UrlBasePaths : BuildUrl(rid, version, path, bp)
  \/ \E version \in UrlVersions : BuildAgain(version)
  \/ \E rid \in RepoIds : Call("info", rid, <<>>)
  \/ TimerFires
  \/ \E status \in {200, 403} : FetchResponds(status, GoodBody)
  \/ \E err \in {NetFaultA, AbortErr} : FetchRejects(err)
  \/ BackoffElapses
  \/ JsonSettles

SpecUrl == Init /\ [][NextUrl]_vars

\* two invocations of getDatasetInfo, for the same repository or for two,
\* interleaved in every way
NextPair ==
  \E i \in CallIds :
    \/ \E rid \in RepoIds : PCall(i, rid)
    \/ PTimerFires(i)
    \/ \E status \in {200, 403}, body \in {GoodBody, Body("object", Undefined, Str("v2.1"))} :
         PFetchResponds(i, status, body)
    \/ \E err \in {NetFaultA, NetFaultB, AbortErr} : PFetchRejects(i, err)
    \/ PBackoffElapses(i)
    \/ PJsonSettles(i)

SpecPair == Init /\ [][NextPair]_vars

\* calls of getDatasetInfo under the scheduling the runtime gives: an armed
\* timer fires, a fetch whose signal has fired rejects, the backoff timer
\* fires, response.json() settles.  A fetch whose signal has not fired may
\* stay in flight for ever.
NextLive ==
  \/ \E rid \in RepoIds : Call("info", rid, <<>>)
  \/ TimerFires
  \/ \E status \in {200, 403, 500}, body \in {GoodBody, TextBody} :
       FetchResponds(status, body)
  \/ \E err \in NetFaults \cup {AbortErr} : FetchRejects(err)
  \/ BackoffElapses
  \/ JsonSettles

SpecLive ==
  /\ Init
  /\ [][NextLive]_vars
  /\ WF_vars(TimerFires)
  /\ WF_vars(FetchRejects(AbortErr))
  /\ WF_vars(BackoffElapses)
  /\ WF_vars(JsonSettles)

\* the server runs with some value of EPISODES, or none
InitPage ==
  /\ InitCore
  /\ envEpisodes \in EnvEpisodes
  /\ PageIdle
  /\ ViewerIdle

\* requests to the sub-path page, and the redirects the client follows
NextPage ==
  \/ \E rest \in Rests : Request(rest)
  \/ DatasetSubpathPage
  \/ FollowRedirect

SpecPage == InitPage /\ [][NextPage]_vars

\* the viewer has mounted with some list of episodes and some episodeId:
\* useState(1), first render done, the effect yet to run
InitViewer ==
  /\ InitCore
  /\ envEpisodes = NoEnv
  /\ PageIdle
  /\ episodesLength \in EpisodeCounts
  /\ episodeIndex \in EpisodeIndexes(episodesLength)
  /\ currentPage = 1
  /\ pending = <<>>
  /\ effectDue = TRUE

\* page events, effects and renders of the viewer
NextViewer ==
  \/ nextPage
  \/ prevPage
  \/ PageEffect
  \/ Render
  \/ \E index \in EpisodeIndexes(episodesLength) : DepsChange(index)

SpecViewer == InitViewer /\ [][NextViewer]_vars

-----------------------------------------------------------------------------
(* Properties                                                              *)

Positions(e) == {i \in 1..Len(trace) : trace[i].e = e}

Count(e) == Cardinality(Positions(e))

\* number of invocations of fetch in the call
FetchCount == Count("fetch")

\* nothing of kind `later` happens after something of kind `e`
NeverAfter(e, later) ==
  \A i \in Positions(e), j \in Positions(later) : j < i

Failed == pc = "done" /\ outcome.status = "thrown"

\* C1: a call invokes fetch at most 2 times under every interleaving of faults,
\* responses and timer expiry; when every attempt fails with a network fault
\* that is not the cancellation, fetch is invoked exactly 2 times and the call
\* ends in a failure.
C1_AtMostTwoAttempts ==
  /\ FetchCount <= 2
  /\ (pc = "done" /\ Count("fault") = FetchCount)
       => (FetchCount = 2 /\ outcome.status = "thrown")

C1_Witness ==
  /\ pc = "done"
  /\ Count("fault") = 2
  /\ FetchCount = 2
  /\ outcome.status = "thrown"

\* C2: once a fetch has rejected with the AbortError no later attempt is
\* started; when the first attempt is the one cancelled, fetch has been invoked
\* once and no backoff wait was performed.
C2_NoRetryAfterAbort ==
  /\ NeverAfter("abort", "fetch")
  /\ NeverAfter("abort", "wait")
  /\ (Count("abort") > 0 /\ Count("fault") = 0)
       => (FetchCount = 1 /\ Count("wait") = 0 /\ pc = "done")

C2_Witness ==
  /\ pc = "done"
  /\ [e |-> "abort", n |-> 0] = trace[Len(trace)]
  /\ Count("fault") = 0
  /\ FetchCount = 1
  /\ outcome.error = AbortErr

\* C3: fetch is never invoked after the 10 s timer of the call has expired,
\* whether the expiry happens during attempt 1, during the backoff wait or
\* during attempt 2.
C3_NoFetchAfterExpiry == NeverAfter("expire", "fetch")


\* a response with a non-success status was received and the call has settled
StatusRejected == pc = "done" /\ response.received /\ ~Ok(response.status)

\* C4: a response with status 401 or 403 makes the call fail with the
\* access-denied failure, never the fetch-failed one, and its message contains
\* the repository identifier and the URL tried; any other non-success status
\* gives the fetch-failed failure, whose message carries the status code.
C4_AuthClassification ==
  StatusRejected =>
    /\ outcome.status = "thrown"
    /\ IF response.status \in {401, 403}
         THEN /\ outcome.error =
                   AccessDeniedError(response.status, repoId, TestUrl(repoId, basePath))
              /\ outcome.error # FetchFailedError(response.status)
              /\ Contains(outcome.error.message, repoId)
              /\ Contains(outcome.error.message, TestUrl(repoId, basePath))
         ELSE /\ outcome.error = FetchFailedError(response.status)
              /\ Contains(outcome.error.message, <<StatusStr(response.status)>>)

C4_Witness ==
  /\ StatusRejected
  /\ response.status = 403
  /\ basePath # <<>>
  /\ Contains(outcome.error.message, TestUrl(repoId, basePath))

\* C5: once an attempt has returned a response, whatever its status and body,
\* the call invokes fetch no more: no fetch, fault, cancellation or backoff
\* wait follows a response, even with the attempt budget not used up.
C5_ResponseNeverRetried ==
  /\ NeverAfter("response", "fetch")
  /\ NeverAfter("response", "wait")
  /\ Count("response") <= 1
  /\ response.received => Count("response") = 1 /\ pc \in {"parsing", "done"}

C5_Witness ==
  /\ pc = "done"
  /\ response.received
  /\ response.status = 500
  /\ attempt = 0
  /\ FetchCount = 1

\* getDatasetVersion has settled on a descriptor that was fetched successfully
\* (success status, a JSON object with its features field)
DescriptorValidated ==
  /\ pc = "done"
  /\ entry = "version"
  /\ response.received
  /\ Ok(response.status)
  /\ response.body.kind = "object"
  /\ response.body.features = Object

Allowlist == {Str("v3.0"), Str("v2.1"), Str("v2.0")}

NonEmptyString(v) == v.t = "string" /\ v.v # ""

\* C6: on a successfully fetched descriptor getDatasetVersion succeeds exactly
\* when codebase_version is one of "v3.0", "v2.1", "v2.0", and then returns
\* that string unchanged; any other non-empty version string makes it fail
\* with the unsupported-version failure, whose message names the repository
\* and the offending version.
C6_VersionAllowlist ==
  DescriptorValidated =>
    LET v == response.body.codebase_version IN
    /\ (outcome.status = "returned") <=> (v \in Allowlist)
    /\ outcome.status = "returned" => outcome.version = v
    /\ (NonEmptyString(v) /\ v \notin Allowlist) =>
         /\ outcome.status = "thrown"
         /\ outcome.error = UnsupportedVersionError(repoId, v)
         /\ Contains(outcome.error.message, repoId)
         /\ Contains(outcome.error.message, <<v.v>>)

C6_Witness ==
  /\ DescriptorValidated
  /\ repoId = <<"lerobot", "/", "pusht">>
  /\ response.body.codebase_version = Str("v2.0")
  /\ outcome = ReturnedVersion(Str("v2.0"))

\* C7: when the fetched descriptor has no version field or an empty one,
\* getDatasetVersion fails with the missing-version failure and not with the
\* unsupported-version one; the allowlist decides only a non-empty version.
C7_MissingVersion ==
  DescriptorValidated =>
    LET v == response.body.codebase_version IN
    /\ v \in {Undefined, Str("")} =>
         /\ outcome.status = "thrown"
         /\ outcome.error = MissingVersionError
         /\ outcome.error # UnsupportedVersionError(repoId, v)
    /\ (outcome.status = "thrown" /\ outcome.error = UnsupportedVersionError(repoId, v))
         => Truthy(v)

C7_Witness ==
  /\ DescriptorValidated
  /\ response.body.codebase_version = Str("")
  /\ outcome.error = MissingVersionError

\* the call has settled on a success response whose body has no usable
\* features field
NoFeatures ==
  /\ pc = "done"
  /\ response.received
  /\ Ok(response.status)
  /\ response.body.features # Object

\* C8: a body that lacks the top-level features field makes the resolution fail
\* with the malformed-descriptor failure before the version is looked at:
\* getDatasetVersion then never reports missing-version or unsupported-version,
\* whatever the body's version field is.
C8_FeaturesBeforeVersion ==
  NoFeatures =>
    /\ outcome.status = "thrown"
    /\ response.body.kind = "object" => outcome.error = MalformedDescriptorError
    /\ outcome.error # MissingVersionError
    /\ outcome.error # UnsupportedVersionError(repoId, response.body.codebase_version)

C8_Witness ==
  /\ NoFeatures
  /\ entry = "version"
  /\ response.body = Body("object", Undefined, Str("v1.0"))
  /\ outcome.error = MalformedDescriptorError


Returned == pc = "done" /\ outcome.status = "returned"

\* C9 as stated: whatever a public entry point returns (the Descriptor of
\* getDatasetInfo included) carries a schema version that is one of v3.0,
\* v2.1, v2.0.
C9_EveryReturnValidated ==
  Returned =>
    IF entry = "version"
      THEN outcome.version \in Allowlist
      ELSE outcome.desc.codebase_version \in Allowlist

\* C9, amended: every version returned by getDatasetVersion is one of v3.0,
\* v2.1, v2.0; the Descriptor returned by getDatasetInfo is the response body
\* as received, known only to have its features field, with its schema version
\* not validated.
C9_OnlyVersionValidated ==
  Returned =>
    IF entry = "version"
      THEN /\ outcome.version \in Allowlist
           /\ outcome.version = response.body.codebase_version
      ELSE /\ outcome.desc = response.body
           /\ outcome.desc.kind = "object"
           /\ outcome.desc.features = Object

C9_Witness ==
  /\ Returned
  /\ entry = "info"
  /\ outcome.desc.codebase_version = Str("v1.0")

\* C10: every failure that escapes getDatasetInfo or getDatasetVersion is an
\* Error with a message: a thrown Error is propagated unchanged, a thrown
\* value that is no Error is replaced by the incompatible-dataset failure,
\* whose message names the repository identifier.
C10_FailuresAreErrors ==
  Failed =>
    /\ IsError(outcome.error)
    /\ outcome.error.message # <<>>
    /\ IsError(raised) => outcome.error = raised
    /\ ~IsError(raised) =>
         /\ outcome.error = IncompatibleDatasetError(repoId)
         /\ Contains(outcome.error.message, repoId)

C10_Witness ==
  /\ Failed
  /\ entry = "version"
  /\ raised = ThrownString
  /\ outcome.error = IncompatibleDatasetError(repoId)


\* the call has settled without any attempt having returned a response
NoResponseEnd == pc = "done" /\ ~response.received

\* what the last attempt made rejected with
LastRejection == rejections[Len(rejections)]

\* C11 as stated: a call that ends without a response surfaces the error of
\* the last attempt made.
C11_LastErrorSurfaced ==
  NoResponseEnd =>
    /\ outcome.status = "thrown"
    /\ outcome.error = LastRejection

\* C11, amended: a call that ends without a response surfaces the error of the
\* last attempt made whenever that error is an Error value (the fault of the
\* second attempt after two faults, the cancellation error after a cancelled
\* attempt); a last rejection value that is no Error is replaced, by the
\* unknown-network-error failure when it is falsy and by the
\* incompatible-dataset failure otherwise.
C11_LastErrorSurfacedIfError ==
  NoResponseEnd =>
    /\ outcome.status = "thrown"
    /\ rejections # <<>>
    /\ IsError(LastRejection) => outcome.error = LastRejection
    /\ Count("abort") > 0 => outcome.error = AbortErr
    /\ LastRejection.type = "undefined" => outcome.error = UnknownNetworkError
    /\ LastRejection.type = "string" => outcome.error = IncompatibleDatasetError(repoId)

C11_Witness ==
  /\ NoResponseEnd
  /\ rejections = <<NetFaultA, NetFaultB>>
  /\ outcome.error = NetFaultB


Built == built # NoBuild

PushtInfoUrl ==
  <<"https:", "/", "/", "huggingface.co", "/", "datasets", "/", "lerobot", "/",
    "pusht", "/", "resolve", "/", "main", "/", "meta", "/", "info.json">>

\* C12: buildVersionedUrl returns the artifact host, "/", the repository
\* identifier, "/resolve/main/", the normalized prefix and the relative path,
\* in this order; for "lerobot/pusht", an empty prefix and "meta/info.json"
\* that is https://huggingface.co/datasets/lerobot/pusht/resolve/main/meta/info.json.
C12_UrlShape ==
  Built =>
    /\ built.url =
         (IF envDatasetUrl = <<>>
            THEN <<"https:", "/", "/", "huggingface.co", "/", "datasets">>
            ELSE envDatasetUrl)
           \o <<"/">> \o built.rid \o <<"/", "resolve", "/", "main", "/">>
           \o built.prefix \o built.path
    /\ (/\ envDatasetUrl = <<>>
        /\ built.rid = <<"lerobot", "/", "pusht">>
        /\ built.basePath = <<>>
        /\ built.path = <<"meta", "/", "info.json">>) => built.url = PushtInfoUrl

C12_Witness ==
  /\ built.url = PushtInfoUrl
  /\ built.basePath = <<>>

\* C13: two calls of buildVersionedUrl with the same repository identifier,
\* relative path and prefix return the same URL, whatever their version
\* arguments and whatever calls of getDatasetInfo ran before or between them.
C13_SameInputsSameUrl ==
  rebuilt # NoRebuild => rebuilt.url = built.url

C13_Witness ==
  /\ rebuilt # NoRebuild
  /\ rebuilt.version # built.version
  /\ built.basePath # <<>>
  /\ pc = "done"
  /\ outcome.status = "thrown"

\* C14: normalizing a normalized prefix gives the same string, in the URL
\* builder and in the fetcher; "/a/b/", "a/b/" and "a/b" all normalize to
\* "a/b/".
C14_NormalizeIdempotent ==
  Built =>
    /\ BuilderPrefix(built.prefix) = built.prefix
    /\ Prefix(Prefix(built.basePath)) = Prefix(built.basePath)
    /\ built.basePath \in ExamplePaths => built.prefix = <<"a", "/", "b", "/">>
    /\ built.basePath \in ExamplePaths
         => Prefix(built.basePath) = <<"a", "/", "b", "/">>

C14_Witness ==
  /\ built.basePath = <<"/", "a", "/", "b", "/">>
  /\ built.prefix = <<"a", "/", "b", "/">>

\* p is empty, or does not begin with "/" and ends with exactly one "/"
WellFormedPrefix(p) ==
  \/ p = <<>>
  \/ /\ Head(p) # "/"
     /\ p[Len(p)] = "/"
     /\ p[Len(p) - 1] # "/"

\* C15: for every sub-path prefix, those made only of separators included, the
\* normalized prefix put into the URL is empty, or does not begin with "/" and
\* ends with exactly one "/".
C15_PrefixWellFormed ==
  Built => WellFormedPrefix(built.prefix)


\* C19: the URL that getDatasetInfo requests for a repository identifier and a
\* prefix is the URL that buildVersionedUrl returns for that repository, any
\* version, the path "meta/info.json" and the same prefix.
C19_FetcherBuilderAgree ==
  pc # "idle" =>
    \A version \in UrlVersions :
      testUrl = buildVersionedUrl(repoId, version, <<"meta", "/", "info.json">>, basePath)

C19_Witness ==
  /\ pc = "fetching"
  /\ basePath = <<"/", "a">>
  /\ testUrl = buildVersionedUrl(repoId, "v3.0", InfoPath, basePath)


\* events of kind e before position j of the history
Before(e, j) == {i \in Positions(e) : i < j}

\* fetches invoked and not yet settled
InFlight ==
  Count("fetch") - Count("fault") - Count("abort") - Count("response")

\* C16: the attempts of a call are strictly sequential: a fetch is invoked only
\* when every earlier fetch of the call has rejected, so at no moment are two
\* fetches of the call in flight.
C16_AttemptsSequential ==
  /\ InFlight \in {0, 1}
  /\ (InFlight = 1) <=> (pc = "fetching")
  /\ \A j \in Positions("fetch") :
       /\ Cardinality(Before("fault", j)) = Cardinality(Before("fetch", j))
       /\ Before("response", j) = {}
       /\ Before("abort", j) = {}

C16_Witness ==
  /\ pc = "fetching"
  /\ FetchCount = 2
  /\ Count("fault") = 1

\* C18: a retry happens only after a network fault that is not the
\* cancellation, and only after a backoff wait of 300 ms times the number of
\* failed attempts (300 ms before attempt 2); no wait follows the final failed
\* attempt or a cancelled attempt.
C18_BackoffBeforeRetry ==
  /\ \A w \in Positions("wait") :
       /\ trace[w - 1].e = "fault"
       /\ trace[w].n = 300 * Cardinality(Before("fault", w))
  /\ \A j \in Positions("fetch") :
       j > 1 => \E w \in Before("wait", j) :
                  \A k \in (w + 1)..(j - 1) : trace[k].e = "expire"
  /\ pc # "idle" =>
       Count("wait") = FetchCount - (IF pc = "backoff" THEN 0 ELSE 1)
  /\ NeverAfter("abort", "wait")
  /\ pc = "done" => trace[Len(trace)].e # "wait"

C18_Witness ==
  /\ pc = "done"
  /\ FetchCount = 2
  /\ trace[3] = [e |-> "wait", n |-> 300]
  /\ Count("fault") = 2
  /\ Count("wait") = 1

\* C20: the 10 s timer is armed only while the attempt loop runs: when the
\* loop has ended (response received, cancellation, budget exhausted) the timer
\* is cleared or has fired, so it never fires during the status check or the
\* body parsing, nor after the call has settled.
C20_TimerOnlyInLoop ==
  /\ timer = "armed" => pc \in {"fetching", "backoff"}
  /\ pc \in {"parsing", "done"} => timer \in {"cleared", "fired"}
  /\ NeverAfter("response", "expire")
  /\ NeverAfter("abort", "expire")
  /\ NeverAfter("parsed", "expire")
  /\ (pc = "done" /\ timer = "fired") => aborted

C20_Witness ==
  /\ pc = "parsing"
  /\ timer = "cleared"
  /\ ~aborted


\* positions of the events of kind e in the history of the invocation c
PositionsIn(c, e) == {k \in 1..Len(c.trace) : c.trace[k].e = e}

\* the invocation c is explained by its own history alone: its signal has
\* fired only if its own timer expired, its fetch was cancelled only after
\* its own expiry, its attempt counter counts its own faults, it invoked fetch
\* at most twice, and its outcome is the one its own response or rejections
\* give.
OwnHistoryOnly(c) ==
  /\ c.aborted <=> (PositionsIn(c, "expire") # {})
  /\ c.timer = "fired" <=> (PositionsIn(c, "expire") # {})
  /\ \A k \in PositionsIn(c, "abort") : \E x \in PositionsIn(c, "expire") : x < k
  /\ c.attempt = Cardinality(PositionsIn(c, "fault"))
  /\ Cardinality(PositionsIn(c, "fetch")) <= 2
  /\ c.pc = "done" =>
       IF c.response.received
         THEN /\ c.response.status = 403 =>
                   c.outcome = Thrown(AccessDeniedError(403, c.rid, TestUrl(c.rid, <<>>)))
              /\ (c.response.status = 200 /\ c.response.body.features = Object) =>
                   c.outcome = ReturnedDesc(c.response.body)
              /\ (c.response.status = 200 /\ c.response.body.features # Object) =>
                   c.outcome = Thrown(MalformedDescriptorError)
         ELSE IF PositionsIn(c, "abort") # {}
           THEN c.outcome = Thrown(AbortErr)
           ELSE /\ Cardinality(PositionsIn(c, "fault")) = 2
                /\ c.outcome = Thrown(c.lastError)
                /\ c.lastError \in {NetFaultA, NetFaultB}

\* C17: concurrent invocations of getDatasetInfo, for the same repository or
\* for different ones, are independent: under every interleaving the timer
\* expiry, fault or retry of one never cancels a request of, uses attempt
\* budget of, or changes the outcome of the other.
C17_InvocationsIndependent ==
  \A i \in CallIds : OwnHistoryOnly(calls[i])

\* both invocations are in flight for the same repository; the timer of the
\* first has fired while the second waits for its retry
C17_Witness ==
  /\ calls[1].pc = "fetching"
  /\ calls[1].aborted
  /\ calls[2].pc = "backoff"
  /\ ~calls[2].aborted
  /\ calls[2].timer = "armed"
  /\ calls[1].rid = calls[2].rid

InProgress == pc \in {"fetching", "backoff", "parsing"}

\* C21: every invocation of getDatasetInfo eventually settles, when a fetch in
\* flight rejects once the signal has fired, the timers fire and body parsing
\* completes; the attempt counter never passes the bound of 2, and a pass of
\* the loop that does not leave it increases the counter.
C21_EventuallySettles ==
  /\ InProgress ~> (pc = "done")
  /\ [](attempt <= 2)
  /\ [][(pc = "fetching" /\ pc' = "backoff") => attempt' = attempt + 1]_vars

\* the invocation settled although no response and no network fault ever
\* came: the 10 s timer fired and the fetch in flight was cancelled
C21_Witness ==
  /\ pc = "done"
  /\ FetchCount = 1
  /\ Count("expire") = 1
  /\ Count("abort") = 1
  /\ Count("fault") = 0
  /\ outcome = Thrown(AbortErr)

\* C22: the sub-path page redirects at most once: for every request whose
\* last segment is not an episode segment and every value of EPISODES, the
\* redirect target's last segment is an episode segment, so the target is
\* rendered without a further redirect.
C22_RedirectsAtMostOnce ==
  /\ redirects <= 1
  /\ pagePc = "redirected" => IsEpisodeSegment(LastSegment(RestOf(location)))

Max(a, b) == IF a >= b THEN a ELSE b

\* C23: in the episode viewer, after any sequence of nextPage and prevPage
\* events (several of them may be handled before a re-render) and of the
\* effect that sets the page from the episode's index, the current page is
\* within 1 .. max(1, totalPages), totalPages = ceil(episodes.length / 100).
C23_PageInRange ==
  currentPage \in 1..Max(1, totalPages)

====
